---- MODULE Spec2Model ----
(***************************************************************************)
(* Key management and session authentication of the offline document      *)
(* vault: AuthProvider (contexts/AuthContext), the crypto and biometrics  *)
(* helpers it calls, the settings store, and the screens that drive it    *)
(* (LockScreen, ResetPassword, SettingsPage, App).                         *)
(*                                                                         *)
(* Strings are sequences of one-character strings.  Every value that can   *)
(* sit in the settings store is a record with a tag t, so that values of   *)
(* different kinds can be compared.                                        *)
(***************************************************************************)
EXTENDS Integers, Sequences, FiniteSets, TLC

\* ------------------------------------------------------------------ bounds
\* Random draws (salts, keys, IVs) available to one run.
MaxRng == 9
\* Password resets per vault.
MaxResets == 1
\* Unlock attempts in flight at once.
MaxPending == 2
\* Documents in the documents store.
MaxDocs == 2
\* Last instant, in milliseconds, at which the auto-lock interval is followed:
\* two timeouts, each with one poll interval.
MaxNow == 620000

\* ------------------------------------------------------- program constants
INACTIVITY_TIMEOUT == 5 * 60 * 1000
PollInterval == 10000

\* ------------------------------------------------------------------ inputs
PwSuper == <<"S", "u", "p", "3", "r", "!", "P", "a", "s", "s">>
PwOther == <<"N", "e", "w", "#", "P", "a", "s", "s", "1">>
PwThird == <<"T", "r", "0", "i", "s", "?", "P", "w", "d">>
Passwords == {PwSuper, PwOther, PwThird}

AnsParis == <<"P", "a", "r", "i", "s">>
AnsParisPadded == <<" ", "p", "a", "r", "i", "s", " ">>
AnsRome == <<"R", "o", "m", "e">>
Answers == {AnsParis, AnsParisPadded, AnsRome}

\* What can be typed into the fields of the setup wizard: the passwords, one
\* without upper case or special character, nothing; an answer, blanks, nothing.
PwWeak == <<"w", "e", "a", "k", "p", "a", "s", "s">>
WizardPasswords == {PwSuper, PwOther, PwWeak, <<>>}
WizardAnswers == {AnsParis, <<" ", " ">>, <<>>}

Questions == {"Quelle est votre ville de naissance ?"}

\* Results of the platform prompt: a credential, null, NotAllowedError,
\* no platform authenticator, any other exception.
PromptOutcomes == {"granted", "denied", "cancelled", "unavailable", "error"}

\* The instants, after the start at 0, at which the model looks at the clock:
\* exactly one timeout after the start, and one millisecond later.
Instants == {INACTIVITY_TIMEOUT, INACTIVITY_TIMEOUT + 1}

\* The content of a file picked on the add-document page.
Files == {"scan"}

\* The documentId of a route that names no stored document.
MissingId == 0 - 1

\* The instants at which time is looked at between two firings of the
\* auto-lock interval: off the 10 s grid, early, shortly before a timeout and
\* shortly after one.
ActivityInstants == {4000, INACTIVITY_TIMEOUT - 5000, INACTIVITY_TIMEOUT + 5000}

\* ------------------------------------------------------------ string tools
UpperCase == {"A", "B", "C", "D", "E", "F", "G", "H", "I", "J", "K", "L", "M",
              "N", "O", "P", "Q", "R", "S", "T", "U", "V", "W", "X", "Y", "Z"}
\* The ASCII members of the class in validatePassword, backquote excepted;
\* no modelled password contains a character outside this set.
SpecialChars == {"!", "@", "#", "$", "%", "^", "&", "*", "(", ")", "_", "+",
                 "-", "=", "[", "]", "{", "}", ";", "'", ":", "|", ",", ".",
                 "<", ">", "/", "?", "~"}

LowerOf(c) ==
    CASE c = "P" -> "p" [] c = "R" -> "r" [] c = "S" -> "s" [] c = "N" -> "n"
      [] c = "T" -> "t" [] OTHER -> c

toLowerCase(s) == [i \in 1..Len(s) |-> LowerOf(s[i])]

RECURSIVE trimStart(_)
trimStart(s) == IF s # <<>> /\ Head(s) = " " THEN trimStart(Tail(s)) ELSE s

RECURSIVE trimEnd(_)
trimEnd(s) ==
    IF s # <<>> /\ s[Len(s)] = " " THEN trimEnd(SubSeq(s, 1, Len(s) - 1)) ELSE s

trim(s) == trimEnd(trimStart(s))

\* answer.toLowerCase().trim()
NormalizeAnswer(answer) == trim(toLowerCase(answer))

validatePassword(password) ==
    /\ Len(password) >= 8
    /\ \E i \in 1..Len(password) : password[i] \in UpperCase
    /\ \E i \in 1..Len(password) : password[i] \in SpecialChars

\* ------------------------------------------------------------------ values
Undefined == [t |-> "undefined"]
Null == [t |-> "null"]
Str(chars) == [t |-> "string", chars |-> chars]
StrTrue == Str(<<"t", "r", "u", "e">>)
StrFalse == Str(<<"f", "a", "l", "s", "e">>)

\* JavaScript truthiness of a string | undefined.
Truthy(v) == v.t # "undefined" /\ v # Str(<<>>)

\* ------------------------------------------------------------------ crypto
\* btoa(String.fromCharCode(...salt)): the text of a 16-byte salt has a
\* fixed length; it is one symbol here.
btoa(bytes) == Str(<<ToString(bytes.id)>>)

atob(text) ==
    [t |-> "bytes", id |-> CHOOSE n \in 0..(MaxRng + 8) : ToString(n) = text.chars[1]]

\* SHA-256 of the text, as a collision-free digest.
hashPin(pin) == [t |-> "sha256", of |-> pin]

\* PBKDF2 over (pin, salt).
deriveKeyFromPin(pin, salt) == [t |-> "aeskey", pin |-> pin, salt |-> salt.id]

generateKey(n) == [t |-> "aeskey", raw |-> n]

exportKey(key) == Str(<<ToString(key.raw)>>)

importKey(keyData) ==
    [t |-> "aeskey", raw |-> CHOOSE n \in 0..(MaxRng + 8) : ToString(n) = keyData.chars[1]]

\* AES-GCM: iv || ciphertext || tag.  intact is FALSE once a stored bit is flipped.
encryptString(text, key, iv) ==
    [t |-> "aesgcm", iv |-> iv, key |-> key, pt |-> text, intact |-> TRUE]

\* decryptString throws unless the key is the encryption key and the tag verifies.
decryptString(encryptedData, key) ==
    IF encryptedData.t = "aesgcm" /\ encryptedData.intact /\ encryptedData.key = key
    THEN [ok |-> TRUE, text |-> encryptedData.pt]
    ELSE [ok |-> FALSE, text |-> Str(<<>>)]

\* AES-GCM over a buffer; the IV is returned beside the ciphertext.
encryptData(data, key, iv) ==
    [t |-> "aesgcm", iv |-> iv, key |-> key, pt |-> data, intact |-> TRUE]

\* decryptData throws unless key and iv are those of the encryption.
decryptData(encryptedData, key, iv) ==
    IF encryptedData.intact /\ encryptedData.key = key /\ encryptedData.iv = iv
    THEN [ok |-> TRUE, data |-> encryptedData.pt]
    ELSE [ok |-> FALSE, data |-> ""]

\* ---------------------------------------------------------- settings store
SettingKeys == {"passwordHash", "salt", "encryptedKey", "secretQuestion",
                "secretAnswerHash", "encryptedKeyRecovery", "biometricsEnabled",
                "biometricsPassword", "encryptedKeyBiometrics"}

EmptyStore == [k \in {} |-> Undefined]

getSetting(st, key) == IF key \in DOMAIN st THEN st[key] ELSE Undefined

saveSetting(st, key, value) ==
    [k \in DOMAIN st \cup {key} |-> IF k = key THEN value ELSE st[k]]

\* ------------------------------------------------------------------- state
VARIABLES
    store,      \* the persisted settings object store
    auth,       \* AuthProvider state
    screen,     \* LockScreen / ResetPassword component state
    now,        \* Date.now()
    rng,        \* next unused value of the random source
    calls,      \* history: the AuthContext calls made by the last handler
    vault,      \* history: what the last setup / reset established
    docs,       \* the persisted documents object store
    docView,    \* DocumentViewPage component state
    pending     \* the login / loginWithBiometrics calls that have not settled

vars == <<store, auth, screen, now, rng, calls, vault, docs, docView, pending>>

\* ------------------------------------------------------------ biometrics lib
\* Variant: the catch block reports success.
authenticateWithBiometricsCatchTrue(outcome) ==
    outcome \in {"granted", "cancelled", "error"}

\* true only when navigator.credentials.get resolves to a credential; every
\* other outcome is caught and reported as false.
authenticateWithBiometrics(outcome) == outcome = "granted"

setBiometricsEnabled(st, enabled) ==
    saveSetting(st, "biometricsEnabled", IF enabled THEN StrTrue ELSE StrFalse)

isBiometricsEnabled(st) == getSetting(st, "biometricsEnabled") = StrTrue

\* ------------------------------------------------------------ AuthProvider
\* Variant: the timestamp is left as it was.
updateActivityKeep(a, t) == a

\* setLastActivity(Date.now()).
updateActivity(a, t) == [a EXCEPT !.lastActivity = t]

\* Variant: the test of the interval callback is not strict.
idleCheckInclusive(t, lastActivity) == t - lastActivity >= INACTIVITY_TIMEOUT

\* The test of the interval callback, evaluated at instant t.
idleCheck(t, lastActivity) == t - lastActivity > INACTIVITY_TIMEOUT

\* Variant: the interval fires every other period.
NextFireEveryOther(a, t) ==
    a.lastActivity + 2 * PollInterval * ((t - a.lastActivity) \div (2 * PollInterval) + 1)

\* The first instant after t at which the interval of the auto-lock effect
\* fires.  The effect depends on [isAuthenticated, lastActivity]; every way
\* into an authenticated session and every activity event sets lastActivity
\* to the current instant, so the running interval was created at
\* a.lastActivity and fires every PollInterval from there.
NextFire(a, t) ==
    a.lastActivity + PollInterval * ((t - a.lastActivity) \div PollInterval + 1)

\* Variant: the key reference survives the lock.
logoutKeepKey(a) == [a EXCEPT !.isAuthenticated = FALSE]

logout(a) == [a EXCEPT !.isAuthenticated = FALSE, !.encryptionKey = Null]

checkSetup(st) == Truthy(getSetting(st, "passwordHash"))

\* The mount effects, given what the platform reports.
checkBiometrics(st, available) ==
    [isBiometricsAvailable |-> available,
     biometricsEnabled |-> isBiometricsEnabled(st) /\ available]

\* Variant: the recovery key is derived from the answer as typed.
setupStoreRawAnswer(st, biometricsAvailable, password, secretQuestion, secretAnswer, r) ==
    LET salt == [t |-> "bytes", id |-> r]
        saltBase64 == btoa(salt)
        exportedKey == exportKey(generateKey(r + 1))
        s1 == saveSetting(st, "passwordHash", hashPin(password \o saltBase64.chars))
        s2 == saveSetting(s1, "salt", saltBase64)
        s3 == saveSetting(s2, "encryptedKey",
                  encryptString(exportedKey, deriveKeyFromPin(password, salt), r + 2))
        s4 == saveSetting(s3, "secretQuestion", Str(<<secretQuestion>>))
        s5 == saveSetting(s4, "secretAnswerHash",
                  hashPin(NormalizeAnswer(secretAnswer) \o saltBase64.chars))
        s6 == saveSetting(s5, "encryptedKeyRecovery",
                  encryptString(exportedKey, deriveKeyFromPin(secretAnswer, salt), r + 3))
    IN  IF biometricsAvailable THEN saveSetting(s6, "biometricsEnabled", StrTrue) ELSE s6

\* The settings written by setup; r is the first of the four random values
\* it draws (salt, main key, two IVs).
setupStore(st, biometricsAvailable, password, secretQuestion, secretAnswer, r) ==
    LET salt == [t |-> "bytes", id |-> r]
        saltBase64 == btoa(salt)
        passwordHash == hashPin(password \o saltBase64.chars)
        secretAnswerHash == hashPin(NormalizeAnswer(secretAnswer) \o saltBase64.chars)
        key == generateKey(r + 1)
        exportedKey == exportKey(key)
        passwordKey == deriveKeyFromPin(password, salt)
        encryptedMainKey == encryptString(exportedKey, passwordKey, r + 2)
        secretKey == deriveKeyFromPin(NormalizeAnswer(secretAnswer), salt)
        encryptedMainKeyForRecovery == encryptString(exportedKey, secretKey, r + 3)
        s1 == saveSetting(st, "passwordHash", passwordHash)
        s2 == saveSetting(s1, "salt", saltBase64)
        s3 == saveSetting(s2, "encryptedKey", encryptedMainKey)
        s4 == saveSetting(s3, "secretQuestion", Str(<<secretQuestion>>))
        s5 == saveSetting(s4, "secretAnswerHash", secretAnswerHash)
        s6 == saveSetting(s5, "encryptedKeyRecovery", encryptedMainKeyForRecovery)
    IN  IF biometricsAvailable THEN saveSetting(s6, "biometricsEnabled", StrTrue) ELSE s6

\* The saveSetting calls of setup in the order the code makes them.
setupWrites(biometricsAvailable, password, secretQuestion, secretAnswer, r) ==
    LET full == setupStore(EmptyStore, biometricsAvailable, password, secretQuestion,
                           secretAnswer, r)
        keys == <<"passwordHash", "salt", "encryptedKey", "secretQuestion",
                  "secretAnswerHash", "encryptedKeyRecovery">>
                \o (IF biometricsAvailable THEN <<"biometricsEnabled">> ELSE <<>>)
    IN  [i \in 1..Len(keys) |-> [key |-> keys[i], value |-> full[keys[i]]]]

\* The store after the given writes, first to last.
RECURSIVE applyWrites(_, _)
applyWrites(st, writes) ==
    IF writes = <<>> THEN st
    ELSE applyWrites(saveSetting(st, Head(writes).key, Head(writes).value), Tail(writes))

setup(st, a, t, password, secretQuestion, secretAnswer, r) ==
    [store |-> setupStore(st, a.isBiometricsAvailable, password, secretQuestion,
                          secretAnswer, r),
     auth |-> updateActivity([a EXCEPT !.encryptionKey = generateKey(r + 1),
                                       !.isSetup = TRUE,
                                       !.isAuthenticated = TRUE], t)]

verifySecretAnswer(st, answer) ==
    LET storedHash == getSetting(st, "secretAnswerHash")
        saltBase64 == getSetting(st, "salt")
    IN  IF ~Truthy(storedHash) \/ ~Truthy(saltBase64) THEN FALSE
        ELSE hashPin(NormalizeAnswer(answer) \o saltBase64.chars) = storedHash

\* r is the random value drawn for the new salt.  unwrapped records whether
\* the call decrypted encryptedKeyRecovery.
resetPasswordWithSecret(st, newPassword, r) ==
    LET saltBase64 == getSetting(st, "salt")
        encryptedKeyRecovery == getSetting(st, "encryptedKeyRecovery")
        newSaltBase64 == btoa([t |-> "bytes", id |-> r])
        newPasswordHash == hashPin(newPassword \o newSaltBase64.chars)
    IN  IF ~Truthy(saltBase64) \/ ~Truthy(encryptedKeyRecovery)
        THEN [store |-> st, ret |-> FALSE, unwrapped |-> FALSE]
        ELSE [store |-> saveSetting(saveSetting(st, "passwordHash", newPasswordHash),
                                    "salt", newSaltBase64),
              ret |-> TRUE, unwrapped |-> FALSE]

\* Which return statement of login is reached.
loginBranch(st, password) ==
    LET storedHash == getSetting(st, "passwordHash")
        saltBase64 == getSetting(st, "salt")
        encryptedMainKey == getSetting(st, "encryptedKey")
    IN  IF ~Truthy(storedHash) \/ ~Truthy(saltBase64) \/ ~Truthy(encryptedMainKey)
        THEN "NotConfigured"
        ELSE IF hashPin(password \o saltBase64.chars) # storedHash
        THEN "WrongSecret"
        ELSE IF ~decryptString(encryptedMainKey,
                               deriveKeyFromPin(password, atob(saltBase64))).ok
        THEN "CorruptEnvelope"
        ELSE "Ok"

\* The value login returns on each branch.
loginReturn(branch) == branch = "Ok"

\* Variant: the wrap key is derived and the wrapped key decrypted before the
\* verifier is compared.
loginDerivesFirst(branch) == branch # "NotConfigured"

\* Whether login reaches deriveKeyFromPin and decryptString on each branch:
\* both come after the return on a verifier mismatch.
loginDerives(branch) == branch \in {"CorruptEnvelope", "Ok"}

\* Variant: a failed login falls back to an authenticated session, as the
\* biometric path does.
loginFallback(st, a, t, password) ==
    LET branch == loginBranch(st, password)
        mainKey == importKey(decryptString(getSetting(st, "encryptedKey"),
                       deriveKeyFromPin(password, atob(getSetting(st, "salt")))).text)
    IN  IF branch = "Ok"
        THEN [auth |-> updateActivity([a EXCEPT !.encryptionKey = mainKey,
                                                !.isAuthenticated = TRUE], t),
              ret |-> TRUE, branch |-> branch, kdf |-> TRUE]
        ELSE [auth |-> updateActivity([a EXCEPT !.isAuthenticated = TRUE], t),
              ret |-> loginReturn(branch), branch |-> branch,
              kdf |-> branch = "CorruptEnvelope"]

\* kdf records whether deriveKeyFromPin / decryptString were invoked.
login(st, a, t, password) ==
    LET branch == loginBranch(st, password)
        mainKey == importKey(decryptString(getSetting(st, "encryptedKey"),
                       deriveKeyFromPin(password, atob(getSetting(st, "salt")))).text)
    IN  IF branch = "Ok"
        THEN [auth |-> updateActivity([a EXCEPT !.encryptionKey = mainKey,
                                                !.isAuthenticated = TRUE], t),
              ret |-> TRUE, branch |-> branch, kdf |-> loginDerives(branch)]
        ELSE [auth |-> a, ret |-> loginReturn(branch), branch |-> branch,
              kdf |-> loginDerives(branch)]

\* Variant: a refused prompt switches the biometric gate off.
loginWithBiometricsGateOff(st, a, t, outcome) ==
    LET encryptedKeyBio == getSetting(st, "encryptedKeyBiometrics")
        saltBase64 == getSetting(st, "salt")
        storedPassword == getSetting(st, "biometricsPassword")
        tryUnwrap == Truthy(encryptedKeyBio) /\ Truthy(saltBase64) /\ Truthy(storedPassword)
        dec == decryptString(encryptedKeyBio,
                             deriveKeyFromPin(storedPassword.chars, atob(saltBase64)))
    IN  IF ~a.isBiometricsAvailable \/ ~a.biometricsEnabled
        THEN [auth |-> a, ret |-> FALSE, kdf |-> FALSE]
        ELSE IF ~authenticateWithBiometrics(outcome)
        THEN [auth |-> [a EXCEPT !.biometricsEnabled = FALSE], ret |-> FALSE, kdf |-> FALSE]
        ELSE IF tryUnwrap /\ dec.ok
        THEN [auth |-> updateActivity([a EXCEPT !.encryptionKey = importKey(dec.text),
                                                !.isAuthenticated = TRUE], t),
              ret |-> TRUE, kdf |-> TRUE]
        ELSE [auth |-> updateActivity([a EXCEPT !.isAuthenticated = TRUE], t),
              ret |-> TRUE, kdf |-> tryUnwrap]

loginWithBiometrics(st, a, t, outcome) ==
    LET encryptedKeyBio == getSetting(st, "encryptedKeyBiometrics")
        saltBase64 == getSetting(st, "salt")
        storedPassword == getSetting(st, "biometricsPassword")
        tryUnwrap == Truthy(encryptedKeyBio) /\ Truthy(saltBase64) /\ Truthy(storedPassword)
        dec == decryptString(encryptedKeyBio,
                             deriveKeyFromPin(storedPassword.chars, atob(saltBase64)))
    IN  IF ~a.isBiometricsAvailable \/ ~a.biometricsEnabled
        THEN [auth |-> a, ret |-> FALSE, kdf |-> FALSE]
        ELSE IF ~authenticateWithBiometrics(outcome)
        THEN [auth |-> a, ret |-> FALSE, kdf |-> FALSE]
        ELSE IF tryUnwrap /\ dec.ok
        THEN [auth |-> updateActivity([a EXCEPT !.encryptionKey = importKey(dec.text),
                                                !.isAuthenticated = TRUE], t),
              ret |-> TRUE, kdf |-> TRUE]
        \* "Fallback: just authenticate without encryption key"
        ELSE [auth |-> updateActivity([a EXCEPT !.isAuthenticated = TRUE], t),
              ret |-> TRUE, kdf |-> tryUnwrap]

\* Variant: the caller is trusted to have checked the password.
enableBiometricsTrusting(st, a, password) ==
    LET storedHash == getSetting(st, "passwordHash")
        saltBase64 == getSetting(st, "salt")
        encryptedMainKey == getSetting(st, "encryptedKey")
    IN  IF ~Truthy(storedHash) \/ ~Truthy(saltBase64) \/ ~Truthy(encryptedMainKey)
        THEN [store |-> st, auth |-> a, ret |-> FALSE]
        ELSE [store |-> setBiometricsEnabled(
                            saveSetting(saveSetting(st, "biometricsPassword", Str(password)),
                                        "encryptedKeyBiometrics", encryptedMainKey),
                            TRUE),
              auth |-> [a EXCEPT !.biometricsEnabled = TRUE],
              ret |-> TRUE]

enableBiometrics(st, a, password) ==
    LET storedHash == getSetting(st, "passwordHash")
        saltBase64 == getSetting(st, "salt")
        encryptedMainKey == getSetting(st, "encryptedKey")
    IN  IF ~Truthy(storedHash) \/ ~Truthy(saltBase64) \/ ~Truthy(encryptedMainKey)
        THEN [store |-> st, auth |-> a, ret |-> FALSE]
        ELSE IF hashPin(password \o saltBase64.chars) # storedHash
        THEN [store |-> st, auth |-> a, ret |-> FALSE]
        ELSE [store |-> setBiometricsEnabled(
                            saveSetting(saveSetting(st, "biometricsPassword", Str(password)),
                                        "encryptedKeyBiometrics", encryptedMainKey),
                            TRUE),
              auth |-> [a EXCEPT !.biometricsEnabled = TRUE],
              ret |-> TRUE]

disableBiometrics(st, a) ==
    [store |-> saveSetting(saveSetting(setBiometricsEnabled(st, FALSE),
                                       "biometricsPassword", Str(<<>>)),
                           "encryptedKeyBiometrics", Str(<<>>)),
     auth |-> [a EXCEPT !.biometricsEnabled = FALSE]]

\* lib/storage wipeAllData, restricted to the settings store.
wipeAllData(st) == EmptyStore

\* ------------------------------------------------------- component state
\* LockScreen.showResetPassword and ResetPassword.step / newPassword.  The
\* components are mounted afresh whenever the lock screen is shown again.
\* verified is history: verifySecretAnswer has returned true since the
\* question step was last shown.
\* setupStep, password, confirmPassword and secretAnswer are the fields of
\* LockScreen used by its setup wizard, isLoading its loading flag.
ScreenClosed ==
    [showResetPassword |-> FALSE, step |-> "question", newPassword |-> <<>>,
     verified |-> FALSE,
     setupStep |-> "password", password |-> <<>>, confirmPassword |-> <<>>,
     secretAnswer |-> <<>>, isLoading |-> FALSE]

\* ResetPassword is closed by onBack: its own state is dropped, that of the
\* LockScreen around it is kept.
ResetClosed(scr) == [ScreenClosed EXCEPT !.isLoading = scr.isLoading]

\* Variant: the password step is left without validation.
wizardNextNoValidation(scr) ==
    CASE scr.setupStep = "password" -> [scr EXCEPT !.setupStep = "confirm"]
      [] scr.setupStep = "confirm" ->
            IF scr.confirmPassword # scr.password
            THEN [scr EXCEPT !.confirmPassword = <<>>]
            ELSE [scr EXCEPT !.setupStep = "secret"]
      [] OTHER -> scr

\* LockScreen.handleSubmit in setup mode, steps 'password' and 'confirm':
\* the component state it leaves.
wizardNext(scr) ==
    CASE scr.setupStep = "password" ->
            IF validatePassword(scr.password)
            THEN [scr EXCEPT !.setupStep = "confirm"]
            ELSE scr
      [] scr.setupStep = "confirm" ->
            IF scr.confirmPassword # scr.password
            THEN [scr EXCEPT !.confirmPassword = <<>>]
            ELSE [scr EXCEPT !.setupStep = "secret"]
      [] OTHER -> scr

\* DocumentViewPage before it is mounted and when it has just been mounted.
ViewClosed == [open |-> FALSE, isLoading |-> TRUE, document |-> Null, decryptedUrl |-> Null]

\* lib/storage getDocument.
getDocument(ds, id) ==
    IF \E d \in ds : d.id = id THEN CHOOSE d \in ds : d.id = id ELSE Undefined

\* ------------------------------------------------------- history records
NoVault == [key |-> Null, secret |-> <<>>, oldSecret |-> <<>>, answer |-> <<>>,
            resets |-> 0, bioGate |-> FALSE, bioStale |-> FALSE,
            tampered |-> FALSE]

Call(op, arg, ret, kdf) == [op |-> op, arg |-> arg, ret |-> ret, kdf |-> kdf]

EnvelopeSlots == {"encryptedKey", "encryptedKeyRecovery", "encryptedKeyBiometrics"}

\* ------------------------------------------------------------------- Init
\* The state once AuthProvider has mounted on an empty store and its two
\* mount effects have run.
Init ==
    /\ store = EmptyStore
    /\ \E available \in BOOLEAN :
         auth = [isAuthenticated |-> FALSE, isSetup |-> FALSE, encryptionKey |-> Null,
                 lastActivity |-> 0, isBiometricsAvailable |-> available,
                 biometricsEnabled |-> FALSE]
    /\ screen = ScreenClosed
    /\ now = 0
    /\ rng = 0
    /\ calls = <<>>
    /\ vault = NoVault
    /\ docs = {}
    /\ docView = ViewClosed
    /\ pending = <<>>

\* ---------------------------------------------------------------- actions
\* Time passes.
Tick(t) ==
    /\ t > now
    /\ now' = t
    /\ calls' = <<>>
    /\ UNCHANGED <<store, auth, screen, rng, vault>>
    /\ UNCHANGED <<docs, docView>>
    /\ UNCHANGED pending

\* touchstart / click / keydown listener.
HandleActivity ==
    /\ auth.lastActivity # now
    /\ auth' = updateActivity(auth, now)
    /\ calls' = <<Call("updateActivity", now, TRUE, FALSE)>>
    /\ UNCHANGED <<store, screen, now, rng, vault>>
    /\ UNCHANGED <<docs, docView>>
    /\ UNCHANGED pending

\* The interval callback of the auto-lock effect, when its test succeeds.
AutoLock ==
    /\ auth.isAuthenticated
    /\ idleCheck(now, auth.lastActivity)
    /\ auth' = logout(auth)
    /\ screen' = ScreenClosed
    /\ calls' = <<>>
    /\ UNCHANGED <<store, now, rng, vault>>
    /\ docView' = ViewClosed
    /\ UNCHANGED docs
    /\ UNCHANGED pending

\* Time passes up to the next firing of the interval of the auto-lock effect,
\* and its callback runs.
IntervalFires ==
    /\ auth.isAuthenticated
    /\ NextFire(auth, now) <= MaxNow
    /\ now' = NextFire(auth, now)
    /\ IF idleCheck(now', auth.lastActivity)
       THEN auth' = logout(auth) /\ screen' = ScreenClosed /\ docView' = ViewClosed
       ELSE UNCHANGED <<auth, screen, docView>>
    /\ calls' = <<Call("idleCheck", now', idleCheck(now', auth.lastActivity), FALSE)>>
    /\ UNCHANGED <<store, rng, vault, docs>>
    /\ UNCHANGED pending

\* Time passes without the interval firing.
Advance(t) ==
    /\ auth.isAuthenticated => t < NextFire(auth, now)
    /\ Tick(t)

\* LockScreen.handleSubmit on the last step of the setup wizard; the earlier
\* steps have validated the password and its confirmation.
SetupSubmit(password, secretQuestion, secretAnswer) ==
    /\ ~auth.isSetup
    /\ rng + 4 <= MaxRng
    /\ validatePassword(password)
    /\ trim(secretAnswer) # <<>>
    /\ LET r == setup(store, auth, now, password, secretQuestion, secretAnswer, rng)
       IN  /\ store' = r.store
           /\ auth' = r.auth
           /\ vault' = [NoVault EXCEPT !.key = r.auth.encryptionKey,
                                       !.secret = password,
                                       !.answer = secretAnswer]
    /\ rng' = rng + 4
    /\ screen' = ScreenClosed
    /\ calls' = <<Call("setup", password, TRUE, TRUE)>>
    /\ UNCHANGED now
    /\ UNCHANGED <<docs, docView>>
    /\ UNCHANGED pending

\* The password input of LockScreen in setup mode: it edits confirmPassword
\* in the confirm step and password in the password step, and is not rendered
\* in the secret step.
WizardEdit(text) ==
    /\ ~auth.isSetup
    /\ screen.setupStep \in {"password", "confirm"}
    /\ screen' = IF screen.setupStep = "confirm"
                 THEN [screen EXCEPT !.confirmPassword = text]
                 ELSE [screen EXCEPT !.password = text]
    /\ screen' # screen
    /\ calls' = <<>>
    /\ UNCHANGED <<store, auth, now, rng, vault, docs, docView>>
    /\ UNCHANGED pending

\* The answer input of the secret step.
WizardEditAnswer(text) ==
    /\ ~auth.isSetup
    /\ screen.setupStep = "secret"
    /\ screen.secretAnswer # text
    /\ screen' = [screen EXCEPT !.secretAnswer = text]
    /\ calls' = <<>>
    /\ UNCHANGED <<store, auth, now, rng, vault, docs, docView>>
    /\ UNCHANGED pending

\* LockScreen.handleSubmit in setup mode.  The submit button is disabled
\* while the field of the step is empty.
WizardSubmit ==
    /\ ~auth.isSetup
    /\ CASE screen.setupStep = "confirm" -> screen.confirmPassword # <<>>
         [] screen.setupStep = "secret" -> trim(screen.secretAnswer) # <<>>
         [] OTHER -> screen.password # <<>>
    /\ IF screen.setupStep = "secret"
       THEN /\ rng + 4 <= MaxRng
            /\ \E q \in Questions :
                 LET r == setup(store, auth, now, screen.password, q,
                                screen.secretAnswer, rng)
                 IN  /\ store' = r.store
                     /\ auth' = r.auth
                     /\ vault' = [NoVault EXCEPT !.key = r.auth.encryptionKey,
                                                 !.secret = screen.password,
                                                 !.answer = screen.secretAnswer]
            /\ rng' = rng + 4
            /\ screen' = ScreenClosed
            /\ calls' = <<Call("setup", screen.password, TRUE, TRUE)>>
       ELSE /\ screen' = wizardNext(screen)
            /\ calls' = <<>>
            /\ UNCHANGED <<store, auth, rng, vault>>
    /\ UNCHANGED <<now, docs, docView>>
    /\ UNCHANGED pending

\* The back button of the setup wizard.
WizardBack ==
    /\ ~auth.isSetup
    /\ screen.setupStep # "password"
    /\ screen' = [screen EXCEPT !.setupStep =
                      IF screen.setupStep = "confirm" THEN "password" ELSE "confirm"]
    /\ calls' = <<>>
    /\ UNCHANGED <<store, auth, now, rng, vault, docs, docView>>
    /\ UNCHANGED pending

\* setup is cut short after its first k writes, by the end of the process or
\* by a saveSetting that rejects: the state setters at its end are not
\* reached, and the lock screen stays in setup mode until the next start.
SetupInterrupted(password, secretQuestion, secretAnswer, k) ==
    /\ ~auth.isSetup
    /\ rng + 4 <= MaxRng
    /\ validatePassword(password)
    /\ trim(secretAnswer) # <<>>
    /\ LET writes == setupWrites(auth.isBiometricsAvailable, password, secretQuestion,
                                 secretAnswer, rng)
       IN  /\ 1 <= k /\ k < Len(writes)
           /\ store' = applyWrites(store, SubSeq(writes, 1, k))
    /\ rng' = rng + 4
    /\ vault' = [NoVault EXCEPT !.secret = password, !.answer = secretAnswer]
    /\ calls' = <<Call("setup", password, FALSE, TRUE)>>
    /\ UNCHANGED <<auth, screen, now, docs, docView>>
    /\ UNCHANGED pending

\* LockScreen.handleSubmit in login mode.
LoginSubmit(password) ==
    /\ auth.isSetup /\ ~auth.isAuthenticated /\ ~screen.showResetPassword
    /\ LET r == login(store, auth, now, password)
       IN  /\ auth' = r.auth
           /\ calls' = <<Call("login", password, r.ret, r.kdf)>>
    /\ UNCHANGED <<store, screen, now, rng, vault>>
    /\ UNCHANGED <<docs, docView>>
    /\ UNCHANGED pending

\* Variant: the form stays enabled while the loading flag is set.
SubmitStartWhileLoading(password) ==
    /\ auth.isSetup /\ ~auth.isAuthenticated /\ ~screen.showResetPassword
    /\ Len(pending) < MaxPending
    /\ screen' = [screen EXCEPT !.isLoading = TRUE]
    /\ pending' = Append(pending, [op |-> "login", arg |-> password])
    /\ calls' = <<>>
    /\ UNCHANGED <<store, auth, now, rng, vault, docs, docView>>

\* LockScreen.handleSubmit in login mode, up to its await: setIsLoading(true)
\* runs inside the submit event, so the state is committed before the next
\* event is dispatched, and login is in flight.  The password input and the
\* submit button are disabled while the flag is set.
SubmitStart(password) ==
    /\ auth.isSetup /\ ~auth.isAuthenticated /\ ~screen.showResetPassword
    /\ ~screen.isLoading
    /\ Len(pending) < MaxPending
    /\ screen' = [screen EXCEPT !.isLoading = TRUE]
    /\ pending' = Append(pending, [op |-> "login", arg |-> password])
    /\ calls' = <<>>
    /\ UNCHANGED <<store, auth, now, rng, vault, docs, docView>>

\* LockScreen.handleBiometrics up to its await.
BiometricsStart ==
    /\ auth.isSetup /\ ~auth.isAuthenticated /\ ~screen.showResetPassword
    /\ auth.isBiometricsAvailable /\ auth.biometricsEnabled
    /\ ~screen.isLoading
    /\ Len(pending) < MaxPending
    /\ screen' = [screen EXCEPT !.isLoading = TRUE]
    /\ pending' = Append(pending, [op |-> "loginWithBiometrics", arg |-> <<>>])
    /\ calls' = <<>>
    /\ UNCHANGED <<store, auth, now, rng, vault, docs, docView>>

\* The i-th call in flight settles and the handler that awaited it runs to
\* its end: setIsLoading(false), and the lock screen is unmounted when the
\* session has become authenticated.
AttemptSettles(i, outcome) ==
    /\ i \in DOMAIN pending
    /\ LET r == IF pending[i].op = "login"
                THEN login(store, auth, now, pending[i].arg)
                ELSE loginWithBiometrics(store, auth, now, outcome)
       IN  /\ pending[i].op = "login" => outcome = "granted"
           /\ auth' = r.auth
           /\ screen' = IF r.auth.isAuthenticated THEN ScreenClosed
                        ELSE [screen EXCEPT !.isLoading = FALSE]
           /\ calls' = <<Call(pending[i].op,
                              IF pending[i].op = "login" THEN pending[i].arg ELSE outcome,
                              r.ret, r.kdf)>>
    /\ pending' = [j \in 1..(Len(pending) - 1) |->
                       IF j < i THEN pending[j] ELSE pending[j + 1]]
    /\ UNCHANGED <<store, now, rng, vault, docs, docView>>

\* LockScreen.handleBiometrics; the button is rendered only when biometrics
\* are available and enabled.
BiometricsPress(outcome) ==
    /\ auth.isSetup /\ ~auth.isAuthenticated /\ ~screen.showResetPassword
    /\ auth.isBiometricsAvailable /\ auth.biometricsEnabled
    /\ LET r == loginWithBiometrics(store, auth, now, outcome)
       IN  /\ auth' = r.auth
           /\ calls' = <<Call("loginWithBiometrics", outcome, r.ret, r.kdf)>>
    /\ UNCHANGED <<store, screen, now, rng, vault>>
    /\ UNCHANGED <<docs, docView>>
    /\ UNCHANGED pending

\* HomePage lock button.
Logout ==
    /\ auth.isSetup /\ auth.isAuthenticated
    /\ auth' = logout(auth)
    /\ screen' = ScreenClosed
    /\ calls' = <<Call("logout", <<>>, TRUE, FALSE)>>
    /\ UNCHANGED <<store, now, rng, vault>>
    /\ docView' = ViewClosed
    /\ UNCHANGED docs
    /\ UNCHANGED pending

\* SettingsPage.handleEnableBiometrics.
EnableBiometrics(password) ==
    /\ auth.isSetup /\ auth.isAuthenticated /\ auth.isBiometricsAvailable
    /\ LET r == enableBiometrics(store, auth, password)
       IN  /\ store' = r.store
           /\ auth' = r.auth
           /\ calls' = <<Call("enableBiometrics", password, r.ret, FALSE)>>
           /\ vault' = IF r.ret THEN [vault EXCEPT !.bioGate = TRUE, !.bioStale = FALSE]
                       ELSE vault
    /\ UNCHANGED <<screen, now, rng>>
    /\ UNCHANGED <<docs, docView>>
    /\ UNCHANGED pending

\* SettingsPage.handleBiometricToggle(false).
DisableBiometrics ==
    /\ auth.isSetup /\ auth.isAuthenticated /\ auth.isBiometricsAvailable
    /\ auth.biometricsEnabled
    /\ LET r == disableBiometrics(store, auth)
       IN  /\ store' = r.store
           /\ auth' = r.auth
    /\ calls' = <<Call("disableBiometrics", <<>>, TRUE, FALSE)>>
    /\ vault' = [vault EXCEPT !.bioGate = FALSE, !.bioStale = FALSE]
    /\ UNCHANGED <<screen, now, rng>>
    /\ UNCHANGED <<docs, docView>>
    /\ UNCHANGED pending

\* SettingsPage.handleWipeData.
WipeData ==
    /\ auth.isSetup /\ auth.isAuthenticated
    /\ store' = wipeAllData(store)
    /\ auth' = logout(auth)
    /\ screen' = ScreenClosed
    /\ calls' = <<Call("wipe", <<>>, TRUE, FALSE)>>
    /\ vault' = NoVault
    /\ UNCHANGED <<now, rng>>
    /\ docs' = {}
    /\ docView' = ViewClosed
    /\ UNCHANGED pending

\* The application is closed and started again; the platform reports the
\* same biometric capability as before.  readFails: the getSetting of
\* checkSetup rejects, its catch block only logs, and isSetup keeps its
\* initial value false.
Restart(readFails) ==
    /\ LET b == checkBiometrics(store, auth.isBiometricsAvailable)
       IN  auth' = [isAuthenticated |-> FALSE,
                      isSetup |-> IF readFails THEN FALSE ELSE checkSetup(store),
                      encryptionKey |-> Null, lastActivity |-> now,
                      isBiometricsAvailable |-> b.isBiometricsAvailable,
                      biometricsEnabled |-> b.biometricsEnabled]
    /\ screen' = ScreenClosed
    /\ calls' = <<>>
    /\ UNCHANGED <<store, now, rng, vault>>
    /\ docView' = ViewClosed
    /\ UNCHANGED docs
    /\ pending' = <<>>

\* "Mot de passe oublie ?" on the lock screen.
OpenResetPassword ==
    /\ auth.isSetup /\ ~auth.isAuthenticated /\ ~screen.showResetPassword
    /\ screen' = [ResetClosed(screen) EXCEPT !.showResetPassword = TRUE]
    /\ calls' = <<>>
    /\ UNCHANGED <<store, auth, now, rng, vault>>
    /\ UNCHANGED <<docs, docView>>
    /\ UNCHANGED pending

\* Variant: the step advances whatever verifySecretAnswer returned.
ResetSubmitAnswerUnchecked(secretAnswer) ==
    /\ auth.isSetup /\ ~auth.isAuthenticated /\ screen.showResetPassword
    /\ screen.step = "question"
    /\ trim(secretAnswer) # <<>>
    /\ LET isValid == verifySecretAnswer(store, secretAnswer)
       IN  /\ screen' = [screen EXCEPT !.step = "newPassword", !.verified = isValid]
           /\ calls' = <<Call("verifySecretAnswer", secretAnswer, isValid, FALSE)>>
    /\ UNCHANGED <<store, auth, now, rng, vault>>
    /\ UNCHANGED <<docs, docView>>
    /\ UNCHANGED pending

\* ResetPassword.handleSubmit, step 'question'.
ResetSubmitAnswer(secretAnswer) ==
    /\ auth.isSetup /\ ~auth.isAuthenticated /\ screen.showResetPassword
    /\ screen.step = "question"
    /\ trim(secretAnswer) # <<>>
    /\ LET isValid == verifySecretAnswer(store, secretAnswer)
       IN  /\ screen' = IF isValid
                        THEN [screen EXCEPT !.step = "newPassword", !.verified = TRUE]
                        ELSE screen
           /\ calls' = <<Call("verifySecretAnswer", secretAnswer, isValid, FALSE)>>
    /\ UNCHANGED <<store, auth, now, rng, vault>>
    /\ UNCHANGED <<docs, docView>>
    /\ UNCHANGED pending

\* ResetPassword.handleSubmit, step 'newPassword'.
ResetSubmitNewPassword(newPassword) ==
    /\ auth.isSetup /\ ~auth.isAuthenticated /\ screen.showResetPassword
    /\ screen.step = "newPassword"
    /\ validatePassword(newPassword)
    /\ screen' = [screen EXCEPT !.step = "confirm", !.newPassword = newPassword]
    /\ calls' = <<>>
    /\ UNCHANGED <<store, auth, now, rng, vault>>
    /\ UNCHANGED <<docs, docView>>
    /\ UNCHANGED pending

\* ResetPassword.handleSubmit, step 'confirm': resetPasswordWithSecret, then
\* login with the new password.
ResetSubmitConfirm(confirmPassword) ==
    /\ auth.isSetup /\ ~auth.isAuthenticated /\ screen.showResetPassword
    /\ screen.step = "confirm"
    /\ confirmPassword = screen.newPassword
    /\ rng + 1 <= MaxRng
    /\ vault.resets < MaxResets
    /\ LET rs == resetPasswordWithSecret(store, screen.newPassword, rng)
           lg == login(rs.store, auth, now, screen.newPassword)
           resetCall == Call("resetPasswordWithSecret", screen.newPassword, rs.ret,
                             rs.unwrapped)
       IN  /\ store' = rs.store
           /\ IF rs.ret
              THEN /\ auth' = lg.auth
                   /\ screen' = IF lg.ret THEN ScreenClosed ELSE ResetClosed(screen)
                   /\ calls' = <<resetCall,
                                 Call("login", screen.newPassword, lg.ret, lg.kdf)>>
                   /\ vault' = [vault EXCEPT !.oldSecret = vault.secret,
                                             !.secret = screen.newPassword,
                                             !.resets = vault.resets + 1,
                                             !.bioStale = vault.bioGate]
              ELSE /\ auth' = auth
                   /\ screen' = screen
                   /\ calls' = <<resetCall>>
                   /\ vault' = vault
    /\ rng' = rng + 1
    /\ UNCHANGED now
    /\ UNCHANGED <<docs, docView>>
    /\ UNCHANGED pending

\* The back button of ResetPassword and the arrow that closes it.
ResetBack ==
    /\ auth.isSetup /\ ~auth.isAuthenticated /\ screen.showResetPassword
    /\ screen' = CASE screen.step = "newPassword" ->
                            [screen EXCEPT !.step = "question", !.verified = FALSE]
                   [] screen.step = "confirm" -> [screen EXCEPT !.step = "newPassword"]
                   [] OTHER -> ResetClosed(screen)
    /\ calls' = <<>>
    /\ UNCHANGED <<store, auth, now, rng, vault>>
    /\ UNCHANGED <<docs, docView>>
    /\ UNCHANGED pending

\* One bit of a persisted wrapped key is flipped.
TamperEnvelope(slot) ==
    /\ getSetting(store, slot).t = "aesgcm"
    /\ getSetting(store, slot).intact
    /\ ~vault.tampered
    /\ store' = saveSetting(store, slot, [getSetting(store, slot) EXCEPT !.intact = FALSE])
    /\ vault' = [vault EXCEPT !.tampered = TRUE]
    /\ calls' = <<>>
    /\ UNCHANGED <<auth, screen, now, rng>>
    /\ UNCHANGED <<docs, docView>>
    /\ UNCHANGED pending

\* AddDocumentPage.handleSave with a file, a category and a name chosen.
\* Without a key in the session the handler returns at its first line.
HandleSave(file) ==
    /\ auth.isSetup /\ auth.isAuthenticated /\ ~docView.open
    /\ Cardinality(docs) < MaxDocs
    /\ rng + 2 <= MaxRng
    /\ IF auth.encryptionKey = Null
       THEN /\ calls' = <<Call("handleSave", file, "silent", FALSE)>>
            /\ UNCHANGED <<docs, rng>>
       ELSE /\ docs' = docs \cup {[id |-> rng + 1,
                                     encryptedData |-> encryptData(file, auth.encryptionKey, rng),
                                     iv |-> rng]}
            /\ rng' = rng + 2
            /\ calls' = <<Call("handleSave", file, "saved", FALSE)>>
    /\ UNCHANGED <<store, auth, screen, now, vault, docView>>
    /\ UNCHANGED pending

\* DocumentViewPage is mounted on /document/:documentId and its effect runs
\* loadDocument.
OpenDocument(documentId) ==
    /\ auth.isSetup /\ auth.isAuthenticated /\ ~docView.open
    /\ LET doc == getDocument(docs, documentId)
           mounted == [ViewClosed EXCEPT !.open = TRUE]
       IN  IF auth.encryptionKey = Null
           THEN /\ docView' = mounted
                /\ calls' = <<Call("loadDocument", documentId, "silent", FALSE)>>
           ELSE IF doc = Undefined
           THEN /\ docView' = [mounted EXCEPT !.isLoading = FALSE]
                /\ calls' = <<Call("loadDocument", documentId, "missing", FALSE)>>
           ELSE LET decrypted == decryptData(doc.encryptedData, auth.encryptionKey, doc.iv)
                IN  IF decrypted.ok
                    THEN /\ docView' = [mounted EXCEPT !.document = doc,
                                                      !.decryptedUrl = Str(<<decrypted.data>>),
                                                      !.isLoading = FALSE]
                         /\ calls' = <<Call("loadDocument", documentId, "shown", FALSE)>>
                    ELSE /\ docView' = [mounted EXCEPT !.document = doc,
                                                      !.isLoading = FALSE]
                         /\ calls' = <<Call("loadDocument", documentId, "error", FALSE)>>
    /\ UNCHANGED <<store, auth, screen, now, rng, vault, docs>>
    /\ UNCHANGED pending

\* The back arrow of DocumentViewPage.
CloseDocument ==
    /\ docView.open
    /\ docView' = ViewClosed
    /\ calls' = <<>>
    /\ UNCHANGED <<store, auth, screen, now, rng, vault, docs>>
    /\ UNCHANGED pending

\* SharePage.handleShare on a document the page has loaded.
HandleShare(documentId) ==
    /\ auth.isSetup /\ auth.isAuthenticated /\ ~docView.open
    /\ getDocument(docs, documentId) # Undefined
    /\ LET document == getDocument(docs, documentId)
       IN  calls' = <<Call("handleShare", documentId,
                           IF auth.encryptionKey = Null THEN "silent"
                           ELSE IF decryptData(document.encryptedData, auth.encryptionKey,
                                               document.iv).ok
                           THEN "shared" ELSE "error",
                           FALSE)>>
    /\ UNCHANGED <<store, auth, screen, now, rng, vault, docs, docView>>
    /\ UNCHANGED pending

Next ==
    \/ \E t \in Instants : Tick(t)
    \/ HandleActivity
    \/ AutoLock
    \/ \E p \in Passwords, q \in Questions, a \in Answers : SetupSubmit(p, q, a)
    \/ \E p \in Passwords : LoginSubmit(p)
    \/ \E o \in PromptOutcomes : BiometricsPress(o)
    \/ Logout
    \/ \E p \in Passwords : EnableBiometrics(p)
    \/ DisableBiometrics
    \/ WipeData
    \/ \E readFails \in BOOLEAN : Restart(readFails)
    \/ OpenResetPassword
    \/ \E a \in Answers : ResetSubmitAnswer(a)
    \/ \E p \in Passwords : ResetSubmitNewPassword(p)
    \/ \E p \in Passwords : ResetSubmitConfirm(p)
    \/ ResetBack
    \/ \E slot \in EnvelopeSlots : TamperEnvelope(slot)

Spec == Init /\ [][Next]_vars

\* The vault with its documents: one way to set it up, the ways to lock and
\* unlock it, and the pages that encrypt and decrypt documents.
NextDocs ==
    \/ \E q \in Questions : SetupSubmit(PwSuper, q, AnsParis)
    \/ \E p \in {PwSuper, PwOther} : LoginSubmit(p)
    \/ \E o \in {"granted", "denied"} : BiometricsPress(o)
    \/ Logout
    \/ \E readFails \in BOOLEAN : Restart(readFails)
    \/ WipeData
    \/ \E file \in Files : HandleSave(file)
    \/ \E id \in {d.id : d \in docs} \cup {MissingId} : OpenDocument(id)
    \/ CloseDocument
    \/ \E id \in {d.id : d \in docs} : HandleShare(id)

SpecDocs == Init /\ [][NextDocs]_vars

\* Setting the vault up, with setups that do not run to their end.
NextSetup ==
    \/ \E p \in Passwords, q \in Questions, a \in Answers : SetupSubmit(p, q, a)
    \/ \E p \in Passwords, q \in Questions, a \in Answers, k \in 1..6 :
           SetupInterrupted(p, q, a, k)
    \/ \E readFails \in BOOLEAN : Restart(readFails)
    \/ \E p \in Passwords : LoginSubmit(p)
    \/ Logout

SpecSetup == Init /\ [][NextSetup]_vars

\* The setup wizard of the lock screen, field by field and step by step.
NextWizard ==
    \/ \E text \in WizardPasswords : WizardEdit(text)
    \/ \E text \in WizardAnswers : WizardEditAnswer(text)
    \/ WizardSubmit
    \/ WizardBack
    \/ Logout
    \/ \E readFails \in BOOLEAN : Restart(readFails)

SpecWizard == Init /\ [][NextWizard]_vars

\* The lock screen with its unlock attempts in flight, and the recovery
\* screen it gives way to.
NextLock ==
    \/ \E q \in Questions : SetupSubmit(PwSuper, q, AnsParis)
    \/ EnableBiometrics(PwSuper)
    \/ Logout
    \/ \E p \in {PwSuper, PwOther} : SubmitStart(p)
    \/ BiometricsStart
    \/ \E i \in 1..MaxPending, o \in {"granted", "denied"} : AttemptSettles(i, o)
    \/ OpenResetPassword
    \/ \E a \in {AnsParis, AnsRome} : ResetSubmitAnswer(a)
    \/ ResetSubmitNewPassword(PwOther)
    \/ ResetSubmitConfirm(PwOther)
    \/ ResetBack

SpecLock == Init /\ [][NextLock]_vars

\* The session and its auto-lock interval on their own, the interval firing
\* exactly on time.
NextTimer ==
    \/ IntervalFires
    \/ \E t \in ActivityInstants : Advance(t)
    \/ HandleActivity
    \/ \E q \in Questions : SetupSubmit(PwSuper, q, AnsParis)
    \/ \E p \in Passwords : LoginSubmit(p)
    \/ BiometricsPress("granted")
    \/ EnableBiometrics(PwSuper)
    \/ Logout

SpecTimer == Init /\ [][NextTimer]_vars

\* ================================================================ claims
\* The primary and the recovery envelope, opened with the given secret and
\* answer under the stored salt.
UnwrapPrimary(st, secret) ==
    decryptString(getSetting(st, "encryptedKey"),
                  deriveKeyFromPin(secret, atob(getSetting(st, "salt"))))

UnwrapRecovery(st, answer) ==
    decryptString(getSetting(st, "encryptedKeyRecovery"),
                  deriveKeyFromPin(NormalizeAnswer(answer), atob(getSetting(st, "salt"))))

PrimaryEnvelope(st) ==
    <<getSetting(st, "passwordHash"), getSetting(st, "salt"), getSetting(st, "encryptedKey")>>

\* C1: an authenticated session always holds the main key.
C1_AuthenticatedHoldsKey == auth.isAuthenticated => auth.encryptionKey # Null

\* C2: once a reset has returned true, login with the new password returns
\* true and leaves the session unlocked with the main key, and login with the
\* replaced password returns false.
C2_ResetThenUnlock ==
    \A i \in DOMAIN calls :
        (calls[i].op = "login" /\ vault.resets > 0 /\ ~vault.tampered) =>
            /\ calls[i].arg = vault.secret =>
                   /\ calls[i].ret
                   /\ auth.isAuthenticated
                   /\ auth.encryptionKey = vault.key
            /\ (calls[i].arg = vault.oldSecret /\ vault.oldSecret # vault.secret) =>
                   ~calls[i].ret

\* C3: as long as the vault set up last has not been reset, wiped or tampered
\* with, its primary envelope opened with the setup password and its recovery
\* envelope opened with the normalized setup answer give the same key, the one
\* setup placed in the session.
C3_SetupEnvelopesAgree ==
    (vault.key # Null /\ vault.resets = 0 /\ ~vault.tampered) =>
        /\ UnwrapPrimary(store, vault.secret).ok
        /\ UnwrapRecovery(store, vault.answer).ok
        /\ importKey(UnwrapPrimary(store, vault.secret).text) = vault.key
        /\ importKey(UnwrapRecovery(store, vault.answer).text) = vault.key
        /\ (calls # <<>> /\ calls[1].op = "setup") => auth.encryptionKey = vault.key

C3_Witness ==
    /\ calls # <<>> /\ calls[1].op = "setup"
    /\ vault.answer = AnsParis
    /\ NormalizeAnswer(vault.answer) # vault.answer
    /\ auth.encryptionKey = vault.key

\* C4: while the vault of the last setup exists, every login or biometric
\* login that returns true leaves the key generated by that setup in the
\* session.
C4_UnlockYieldsSetupKey ==
    \A i \in DOMAIN calls :
        (calls[i].op \in {"login", "loginWithBiometrics"} /\ calls[i].ret
            /\ vault.key # Null) =>
            auth.encryptionKey = vault.key

\* C5: a login with a password other than the current one returns false and
\* changes neither the settings store nor the session.
C5_WrongSecretChangesNothing ==
    [][(Len(calls') = 1 /\ calls'[1].op = "login" /\ calls'[1].arg # vault.secret) =>
           (~calls'[1].ret /\ store' = store /\ auth' = auth)]_vars

C5_Witness ==
    /\ Len(calls) = 1 /\ calls[1].op = "login"
    /\ vault.key # Null
    /\ calls[1].arg # vault.secret
    /\ loginBranch(store, calls[1].arg) = "WrongSecret"
    /\ ~calls[1].ret

\* C6: a login that matched the verifier and then failed to decrypt the
\* wrapped key returns something else than a login with a wrong password.
C6_CorruptDistinctFromWrong ==
    (Len(calls) = 1 /\ calls[1].op = "login"
        /\ loginBranch(store, calls[1].arg) = "CorruptEnvelope") =>
        \A q \in Passwords :
            loginBranch(store, q) = "WrongSecret" =>
                loginReturn(loginBranch(store, q)) # calls[1].ret

\* C7: after a reset that returned true, the setup answer still verifies and
\* still opens the recovery envelope to the main key.
C7_RecoveryUsableAfterReset ==
    (vault.resets > 0 /\ ~vault.tampered) =>
        /\ verifySecretAnswer(store, vault.answer)
        /\ UnwrapRecovery(store, vault.answer).ok
        /\ importKey(UnwrapRecovery(store, vault.answer).text) = vault.key

\* C8: when no answer opens the recovery envelope, resetPasswordWithSecret
\* returns false and leaves passwordHash, salt and encryptedKey as they were.
C8_ResetFailsWithoutUnwrap ==
    [][(/\ calls' # <<>>
        /\ calls'[1].op = "resetPasswordWithSecret"
        /\ \A a \in Answers : ~UnwrapRecovery(store, a).ok) =>
           (~calls'[1].ret /\ PrimaryEnvelope(store') = PrimaryEnvelope(store))]_vars

\* C9: when the biometric gate was enabled before a reset that returned true,
\* a biometric login with the prompt granted returns false and leaves the
\* session locked.
C9_StaleBiometricEnvelope ==
    \A i \in DOMAIN calls :
        (calls[i].op = "loginWithBiometrics" /\ calls[i].arg = "granted"
            /\ vault.bioStale) =>
            (~calls[i].ret /\ ~auth.isAuthenticated)

\* C10: a biometric login whose prompt is not granted returns false, derives
\* and decrypts nothing, and leaves the session locked without a key.
C10_PromptRefusedNoUnlock ==
    \A i \in DOMAIN calls :
        (calls[i].op = "loginWithBiometrics" /\ calls[i].arg # "granted") =>
            /\ ~calls[i].ret
            /\ ~calls[i].kdf
            /\ ~auth.isAuthenticated
            /\ auth.encryptionKey = Null

C10_Witness ==
    /\ Len(calls) = 1 /\ calls[1].op = "loginWithBiometrics"
    /\ calls[1].arg = "cancelled"
    /\ ~calls[1].ret
    /\ UnwrapPrimary(store, vault.secret).ok
    /\ getSetting(store, "encryptedKeyBiometrics").t = "aesgcm"

\* C11: no persisted setting is the current password or the exported main key
\* in the clear, and no persisted string, used as a secret under the persisted
\* salt, opens a persisted wrapped key.
C11_NoPlaintextPersisted ==
    vault.key # Null =>
        \A k \in DOMAIN store :
            /\ store[k] # Str(vault.secret)
            /\ store[k] # exportKey(vault.key)
            /\ (store[k].t = "string" /\ Truthy(getSetting(store, "salt"))) =>
                   \A slot \in EnvelopeSlots :
                       ~decryptString(getSetting(store, slot),
                                      deriveKeyFromPin(store[k].chars,
                                                       atob(getSetting(store, "salt")))).ok

\* C12: a setup invoked while a primary envelope is persisted fails and
\* leaves the settings store and the key held by the session as they were.
C12_SetupRejectedWhenConfigured ==
    [][(/\ calls' # <<>>
        /\ calls'[1].op = "setup"
        /\ Truthy(getSetting(store, "passwordHash"))) =>
           (/\ ~calls'[1].ret
            /\ store' = store
            /\ auth'.encryptionKey = auth.encryptionKey)]_vars

\* C13: no two persisted wrapped keys are wrapped under keys derived with the
\* same salt, and the password verifier and the answer verifier are hashed
\* with different salts.
C13_EnvelopeSaltsDistinct ==
    /\ \A s1, s2 \in EnvelopeSlots :
           (/\ s1 # s2
            /\ getSetting(store, s1).t = "aesgcm"
            /\ getSetting(store, s2).t = "aesgcm") =>
               getSetting(store, s1).key.salt # getSetting(store, s2).key.salt
    /\ (Truthy(getSetting(store, "passwordHash"))
            /\ Truthy(getSetting(store, "secretAnswerHash"))) =>
           LET h1 == getSetting(store, "passwordHash").of
               h2 == getSetting(store, "secretAnswerHash").of
           IN  h1[Len(h1)] # h2[Len(h2)]

\* C14: logout from any state gives a locked session without a key, a second
\* logout changes nothing more, and that is the state the lock button leaves.
C14_LogoutLocksIdempotent ==
    /\ ~logout(auth).isAuthenticated
    /\ logout(auth).encryptionKey = Null
    /\ logout(logout(auth)) = logout(auth)
    /\ (calls # <<>> /\ calls[1].op = "logout") =>
           /\ ~auth.isAuthenticated
           /\ auth.encryptionKey = Null
           /\ logout(auth) = auth

C14_Witness ==
    /\ calls # <<>> /\ calls[1].op = "logout"
    /\ vault.key # Null
    /\ UnwrapPrimary(store, vault.secret).ok
    /\ ~auth.isAuthenticated
    /\ auth.encryptionKey = Null

\* C17: right after the wipe handler, no setting is left, the session is
\* locked without a key, and isSetup is false.
C17_WipeReturnsToUninitialized ==
    (calls # <<>> /\ calls[1].op = "wipe") =>
        /\ \A k \in SettingKeys : ~Truthy(getSetting(store, k))
        /\ ~auth.isAuthenticated
        /\ auth.encryptionKey = Null
        /\ ~auth.isSetup

\* C19: while the vault of the last setup exists, verifySecretAnswer returns
\* true exactly for the answers whose normalized form is that of the setup
\* answer, and changes neither the settings store nor the session.
C19_AnswerVerifiedUpToNormalization ==
    [][(Len(calls') = 1 /\ calls'[1].op = "verifySecretAnswer" /\ vault.key # Null) =>
           (/\ calls'[1].ret =
                   (NormalizeAnswer(calls'[1].arg) = NormalizeAnswer(vault.answer))
            /\ store' = store
            /\ auth' = auth)]_vars

\* C20: a biometric login that returns false changes neither the settings
\* store nor the session, so every password logs in afterwards exactly as it
\* did before.
C20_FailedBiometricLeavesSecretUnlock ==
    [][(Len(calls') = 1 /\ calls'[1].op = "loginWithBiometrics" /\ ~calls'[1].ret) =>
           (/\ store' = store
            /\ auth' = auth
            /\ \A p \in Passwords :
                   login(store', auth', now', p) = login(store, auth, now, p))]_vars

C20_Witness ==
    /\ Len(calls) = 1 /\ calls[1].op = "loginWithBiometrics"
    /\ calls[1].arg = "denied"
    /\ ~calls[1].ret
    /\ login(store, auth, now, vault.secret).ret
    /\ login(store, auth, now, vault.secret).auth.encryptionKey = vault.key

\* C15: the test of the auto-lock interval is strict: 299 s and exactly 300 s
\* after the last activity it does not hold, 301 s after it holds; and the
\* callback locks the session exactly when more than the timeout has passed.
C15_IdleCheckStrict ==
    /\ ~idleCheck(auth.lastActivity + 299 * 1000, auth.lastActivity)
    /\ ~idleCheck(auth.lastActivity + 300 * 1000, auth.lastActivity)
    /\ idleCheck(auth.lastActivity + 301 * 1000, auth.lastActivity)
    /\ (calls # <<>> /\ calls[1].op = "idleCheck") =>
           /\ calls[1].ret = (calls[1].arg - auth.lastActivity > 300 * 1000)
           /\ calls[1].ret = ~auth.isAuthenticated

C15_Witness ==
    /\ calls # <<>> /\ calls[1].op = "idleCheck"
    /\ calls[1].arg - auth.lastActivity = 300 * 1000
    /\ auth.lastActivity > 0
    /\ ~calls[1].ret
    /\ auth.isAuthenticated

\* C16: an unlocked session is never older than the timeout plus one poll
\* interval since its last activity, and the interval callback locks only
\* when the last activity is more than the timeout old.
C16_LockWithinTimeoutPlusPoll ==
    /\ auth.isAuthenticated => now - auth.lastActivity < 300 * 1000 + 10 * 1000
    /\ (calls # <<>> /\ calls[1].op = "idleCheck" /\ calls[1].ret) =>
           /\ calls[1].arg - auth.lastActivity > 300 * 1000
           /\ calls[1].arg - auth.lastActivity <= 300 * 1000 + 10 * 1000
           /\ ~auth.isAuthenticated

C16_Witness ==
    /\ calls # <<>> /\ calls[1].op = "idleCheck"
    /\ calls[1].ret
    /\ auth.lastActivity = 4000
    /\ now = auth.lastActivity + 300 * 1000 + 10 * 1000
    /\ ~auth.isAuthenticated
    /\ auth.encryptionKey = Null

\* C18: a save, load or share of a document requested while the session
\* holds no key ends in SessionLockedError.
C18_LockedRequestFailsExplicitly ==
    \A i \in DOMAIN calls :
        (calls[i].op \in {"handleSave", "loadDocument", "handleShare"}
            /\ auth.encryptionKey = Null) =>
            calls[i].ret = "SessionLockedError"

\* C21: a login whose password does not match the verifier returns false
\* without deriving a key or decrypting, and a login derives and decrypts
\* only when the verifier has matched.
C21_VerifierPrecedesDerivation ==
    [][\A i \in DOMAIN calls' :
           calls'[i].op = "login" =>
               LET st == IF i = 1 THEN store ELSE store'
                   matched ==
                       /\ Truthy(getSetting(st, "passwordHash"))
                       /\ Truthy(getSetting(st, "salt"))
                       /\ hashPin(calls'[i].arg \o getSetting(st, "salt").chars)
                              = getSetting(st, "passwordHash")
               IN  /\ ~matched => (~calls'[i].ret /\ ~calls'[i].kdf)
                   /\ calls'[i].kdf => matched]_vars

C21_Witness ==
    /\ Len(calls) = 1 /\ calls[1].op = "login"
    /\ vault.key # Null
    /\ UnwrapPrimary(store, vault.secret).ok
    /\ calls[1].arg # vault.secret
    /\ ~calls[1].ret
    /\ ~calls[1].kdf

\* C22: resetPasswordWithSecret is called only from the confirm step, and
\* only when verifySecretAnswer has returned true since the question step was
\* last shown.
C22_ResetOnlyAfterVerification ==
    [][(calls' # <<>> /\ calls'[1].op = "resetPasswordWithSecret") =>
           (/\ screen.showResetPassword
            /\ screen.step = "confirm"
            /\ screen.verified)]_vars

C22_Witness ==
    /\ Len(calls) = 2 /\ calls[1].op = "resetPasswordWithSecret"
    /\ calls[1].ret
    /\ vault.resets > 0
    /\ verifySecretAnswer(store, vault.answer) = FALSE

\* C23: enableBiometrics called with a password that the stored verifier does
\* not match, or with no primary envelope stored, returns false and changes
\* neither the settings store nor the session.
C23_EnableBiometricsChecksSecret ==
    [][(/\ Len(calls') = 1
        /\ calls'[1].op = "enableBiometrics"
        /\ \/ ~Truthy(getSetting(store, "passwordHash"))
           \/ ~Truthy(getSetting(store, "salt"))
           \/ ~Truthy(getSetting(store, "encryptedKey"))
           \/ hashPin(calls'[1].arg \o getSetting(store, "salt").chars)
                  # getSetting(store, "passwordHash")) =>
           (/\ ~calls'[1].ret
            /\ store' = store
            /\ auth' = auth)]_vars

C23_Witness ==
    /\ Len(calls) = 1 /\ calls[1].op = "enableBiometrics"
    /\ calls[1].arg # vault.secret
    /\ ~calls[1].ret
    /\ auth.isAuthenticated
    /\ ~auth.biometricsEnabled
    /\ getSetting(store, "encryptedKeyBiometrics") = Undefined

\* C25: an activity event received while the session is locked leaves
\* lastActivity unchanged.
C25_ActivityIgnoredWhileLocked ==
    [][(/\ calls' # <<>>
        /\ calls'[1].op = "updateActivity"
        /\ ~auth.isAuthenticated) =>
           auth'.lastActivity = auth.lastActivity]_vars

\* C26: a setup, login or biometric login that unlocks the session leaves
\* lastActivity at the instant of the unlock, and the interval callback locks
\* a session only when more than the timeout has passed since lastActivity,
\* which is never before the unlock.
C26_UnlockResetsActivity ==
    /\ (/\ calls # <<>>
        /\ calls[Len(calls)].op \in {"setup", "login", "loginWithBiometrics"}
        /\ calls[Len(calls)].ret) =>
           (auth.isAuthenticated /\ auth.lastActivity = now)
    /\ (calls # <<>> /\ calls[1].op = "idleCheck" /\ ~auth.isAuthenticated) =>
           now - auth.lastActivity > 300 * 1000

C26_Witness ==
    /\ Len(calls) = 1 /\ calls[1].op = "login"
    /\ calls[1].ret
    /\ now = INACTIVITY_TIMEOUT + 5000
    /\ auth.isAuthenticated
    /\ auth.lastActivity = now

\* C28: whenever the persisted biometricsEnabled flag is 'true', a biometric
\* envelope is persisted that the persisted biometric secret opens to the
\* key held by an unlocked session of that vault.
C28_FlagImpliesBiometricEnvelope ==
    isBiometricsEnabled(store) =>
        LET encryptedKeyBio == getSetting(store, "encryptedKeyBiometrics")
            storedPassword == getSetting(store, "biometricsPassword")
            saltBase64 == getSetting(store, "salt")
        IN  /\ Truthy(encryptedKeyBio)
            /\ Truthy(storedPassword)
            /\ Truthy(saltBase64)
            /\ encryptedKeyBio.t = "aesgcm"
            /\ vault.tampered
                   \/ decryptString(encryptedKeyBio,
                                    deriveKeyFromPin(storedPassword.chars,
                                                     atob(saltBase64))).ok

\* C30: once loadDocument has run on a mounted document view, isLoading is
\* false.
C30_LoadDocumentEndsLoading ==
    (calls # <<>> /\ calls[1].op = "loadDocument" /\ docView.open) =>
        ~docView.isLoading

\* C27: a locked vault that is reported as configured can be unlocked with
\* the password given to the last setup, whether or not that setup ran to
\* its end.
C27_ConfiguredMeansUnlockable ==
    (auth.isSetup /\ ~auth.isAuthenticated /\ checkSetup(store)) =>
        login(store, auth, now, vault.secret).ret

\* C29: when the wizard calls setup, the password it passes is valid and is
\* the password field, the confirmation field equals it, and the answer it
\* passes is the answer field and is not blank.
C29_WizardCallsSetupValidated ==
    [][(calls' # <<>> /\ calls'[1].op = "setup") =>
           (/\ calls'[1].arg = screen.password
            /\ validatePassword(calls'[1].arg)
            /\ screen.confirmPassword = screen.password
            /\ vault'.answer = screen.secretAnswer
            /\ trim(vault'.answer) # <<>>)]_vars

C29_Witness ==
    /\ calls # <<>> /\ calls[1].op = "setup"
    /\ vault.secret = PwOther
    /\ UnwrapPrimary(store, PwOther).ok
    /\ getSetting(store, "passwordHash") # Undefined
    /\ auth.isAuthenticated

====
